---- MODULE Spec2Model ----
(***************************************************************************)
(* A model of rngcheck: the bit adapters of src/src/helpers.rs (BitIter,   *)
(* BitsFromRng) and the two NIST 800-22 frequency tests of                 *)
(* src/src/nist.rs (nist_freq_monobit, nist_freq_block).                   *)
(*                                                                         *)
(* f32 values are modelled as exact rationals [num, den] (den > 0, lowest  *)
(* terms) plus the value NaN: rounding is abstracted away, NaN is kept.    *)
(* The external numeric functions (libm::erfcf, special::Gamma::inc_gamma) *)
(* are pure but unknown: a call returns any value of a small domain, and   *)
(* the same arguments return the same value again (memo).                  *)
(***************************************************************************)
EXTENDS Integers, Sequences, FiniteSets, TLC

VARIABLES
    pc,          \* position of the running operation
    call,        \* the arguments of the test call: [kind, src, block_len]
    bitIter,     \* BitIter: [buff, i, j]
    rngIter,     \* BitsFromRng: [remaining, buffer, buffered]
    mono,        \* locals of nist_freq_monobit: [v, n]
    blk,         \* locals of nist_freq_block
    res,         \* the results returned so far, one per completed call
    memo,        \* the external numeric functions' values, by argument
    out,         \* history: the bits the bit source has yielded
    nPulled,     \* history: how many bits the bit source has yielded
    nones,       \* history: how many calls of next returned None
    words,       \* history: the words next_u32 has returned
    igammaCalls  \* history: the arguments of each nist_igamma call

vars == <<pc, call, bitIter, rngIter, mono, blk, res, memo, out, nPulled,
          nones, words, igammaCalls>>

-----------------------------------------------------------------------------
(* Bounds of the model *)

\* longest buffer of the BitIter specification, in bytes
MaxBytes == 2
\* calls of next made after the first None
MaxNoneCalls == 2
\* largest item count given to BitsFromRng::new
MaxItems == 34
\* longest bit sequence given to nist_freq_monobit
MaxMonoBits == 102
\* longest bit sequence given to nist_freq_block
MaxBlockBits == 6
\* largest block_len given to nist_freq_block
MaxBlockLen == 3
\* num_blocks is followed exactly below this value and kept at it above
MaxBlocks == 120
\* longest buffer of the replay specification, in bytes
MaxReplayBytes == 13

ByteVals == {0, 1, 2, 64, 128, 165, 255}
ReplayByteVals == {0, 165, 255}

\* Option<bool>: None, Some(b)
None == <<>>
Some(b) == <<b>>

-----------------------------------------------------------------------------
(* f32 as exact rationals and NaN *)

NaN == [num |-> 0, den |-> 0]

Abs(x) == IF x < 0 THEN -x ELSE x

Min(a, b) == IF a < b THEN a ELSE b

\* the greatest common divisor of a >= 0 and b > 0
Gcd(a, b) ==
    IF a = 0 THEN b
    ELSE CHOOSE g \in 1 .. Min(a, b) :
           /\ a % g = 0
           /\ b % g = 0
           /\ \A h \in g + 1 .. Min(a, b) : ~(a % h = 0 /\ b % h = 0)

\* n / d as an f32: 0.0 / 0.0 is NaN (no other division by zero occurs)
Rat(n, d) ==
    IF d = 0 THEN NaN
    ELSE CHOOSE r \in {[num |-> (IF d < 0 THEN -n ELSE n) \div g,
                        den |-> Abs(d) \div g] : g \in {Gcd(Abs(n), Abs(d))}} : TRUE

FromInt(n) == Rat(n, 1)

\* The operands of the four operations are bound as values (x, y), so that
\* a nested expression is evaluated once however often it is read.
FDiv(a, b) ==
    CHOOSE r \in {IF x = NaN \/ y = NaN THEN NaN
                  ELSE Rat(x.num * y.den, x.den * y.num) : x \in {a}, y \in {b}} : TRUE

FMul(a, b) ==
    CHOOSE r \in {IF x = NaN \/ y = NaN THEN NaN
                  ELSE Rat(x.num * y.num, x.den * y.den) : x \in {a}, y \in {b}} : TRUE

FAdd(a, b) ==
    CHOOSE r \in {IF x = NaN \/ y = NaN THEN NaN
                  ELSE Rat(x.num * y.den + y.num * x.den, x.den * y.den) :
                  x \in {a}, y \in {b}} : TRUE

FSub(a, b) ==
    CHOOSE r \in {IF x = NaN \/ y = NaN THEN NaN
                  ELSE Rat(x.num * y.den - y.num * x.den, x.den * y.den) :
                  x \in {a}, y \in {b}} : TRUE

\* a >= b on f32: false when either side is NaN
FGe(a, b) ==
    /\ a # NaN
    /\ b # NaN
    /\ a.num * b.den >= b.num * a.den

\* the values an external numeric function may return
FVals == {NaN, Rat(0, 1), Rat(9, 1000), Rat(1, 100), Rat(99, 100),
          Rat(991, 1000), Rat(1, 1)}

-----------------------------------------------------------------------------
(* helpers.rs: BitIter *)

\* d[i] & (1 << j) != 0
BitOf(x, j) == (x \div (2 ^ j)) % 2 = 1

NewBitIter(buff) == [buff |-> buff, i |-> 0, j |-> 0]

\* mutant: the bits of a byte taken most significant first
BitIterNext_MsbFirst(it) ==
    IF it.i >= Len(it.buff)
    THEN [it |-> it, val |-> None]
    ELSE [it  |-> IF it.j < 7
                  THEN [it EXCEPT !.j = it.j + 1]
                  ELSE [it EXCEPT !.i = it.i + 1, !.j = 0],
          val |-> Some(BitOf(it.buff[it.i + 1], 7 - it.j))]

\* BitIter::next on iterator state it: the new state and the value returned
BitIterNext(it) ==
    IF it.i >= Len(it.buff)
    THEN [it |-> it, val |-> None]
    ELSE [it  |-> IF it.j < 7
                  THEN [it EXCEPT !.j = it.j + 1]
                  ELSE [it EXCEPT !.i = it.i + 1, !.j = 0],
          val |-> Some(BitOf(it.buff[it.i + 1], it.j))]

-----------------------------------------------------------------------------
(* helpers.rs: BitsFromRng *)

\* A u32 is kept as its two 16-bit halves [hi, lo].
U32(hi, lo) == [hi |-> hi, lo |-> lo]

HalfVals == {0, 1, 32768, 42405, 65535}
WordVals == {U32(h, l) : h \in HalfVals, l \in {0, 1, 65535}}

\* buffer & 1 != 0
LowBit(w) == w.lo % 2 = 1

\* buffer >> 1
Shr1(w) == U32(w.hi \div 2, (w.lo \div 2) + (w.hi % 2) * 32768)

\* bit k (0 the least significant) of the u32 w
WordBit(w, k) == IF k < 16 THEN BitOf(w.lo, k) ELSE BitOf(w.hi, k - 16)

NewBitsFromRng(items) ==
    [remaining |-> items, buffer |-> U32(0, 0), buffered |-> 0]

\* mutant: the buffer is never shifted
BitsFromRngNext_NoShift(r, w) ==
    IF r.remaining = 0
    THEN [it |-> r, val |-> None, fetched |-> FALSE]
    ELSE LET fetch  == r.buffered = 0
             buffer == IF fetch THEN w ELSE r.buffer
             nbuf   == IF fetch THEN 32 ELSE r.buffered
         IN [it      |-> [remaining |-> r.remaining - 1,
                          buffer    |-> buffer,
                          buffered  |-> nbuf - 1],
             val     |-> Some(LowBit(buffer)),
             fetched |-> fetch]

\* mutant: a word is fetched on every call, buffered bits or not
BitsFromRngNext_AlwaysFetch(r, w) ==
    IF r.remaining = 0
    THEN [it |-> r, val |-> None, fetched |-> FALSE]
    ELSE [it      |-> [remaining |-> r.remaining - 1,
                       buffer    |-> Shr1(w),
                       buffered  |-> 31],
          val     |-> Some(LowBit(w)),
          fetched |-> TRUE]

\* BitsFromRng::next on state r, w the word next_u32 returns if it is called:
\* the new state, the value returned, and whether next_u32 was called
BitsFromRngNext(r, w) ==
    IF r.remaining = 0
    THEN [it |-> r, val |-> None, fetched |-> FALSE]
    ELSE LET fetch  == r.buffered = 0
             buffer == IF fetch THEN w ELSE r.buffer
             nbuf   == IF fetch THEN 32 ELSE r.buffered
         IN [it      |-> [remaining |-> r.remaining - 1,
                          buffer    |-> Shr1(buffer),
                          buffered  |-> nbuf - 1],
             val     |-> Some(LowBit(buffer)),
             fetched |-> fetch]

-----------------------------------------------------------------------------
(* The states every specification starts from *)

NoCall == [kind |-> "none", src |-> "none", block_len |-> 0, items |-> 0]
NoMono == [v |-> 0, n |-> 0]
NoBlk  == [block_len |-> 0, num_blocks |-> 0, x2_partial |-> FromInt(0),
           take_n |-> 0, block_n |-> 0, block_v |-> 0]
NoMemo == [erfcf |-> {}, igamma |-> {}]

\* everything but pc, call and the bit source, before any step
Fresh ==
    /\ mono = NoMono
    /\ blk = NoBlk
    /\ res = <<>>
    /\ memo = NoMemo
    /\ out = <<>>
    /\ nPulled = 0
    /\ nones = 0
    /\ words = <<>>
    /\ igammaCalls = <<>>

RECURSIVE SeqsUpTo(_, _)
SeqsUpTo(S, n) ==
    IF n = 0 THEN {<<>>}
    ELSE LET shorter == SeqsUpTo(S, n - 1)
         IN shorter \cup {Append(s, x) : s \in {t \in shorter : Len(t) = n - 1}, x \in S}

-----------------------------------------------------------------------------
(* Specification of BitIter alone: a buffer, then calls of next *)

BitIterInit ==
    /\ pc = "iter"
    /\ call = NoCall
    /\ bitIter \in {NewBitIter(b) : b \in SeqsUpTo(ByteVals, MaxBytes)}
    /\ rngIter = NewBitsFromRng(0)
    /\ Fresh

\* one call of BitIter::next
BitIterCall ==
    /\ pc = "iter"
    /\ nones < MaxNoneCalls
    /\ LET r == BitIterNext(bitIter)
       IN /\ bitIter' = r.it
          /\ IF r.val = None
             THEN nones' = nones + 1 /\ UNCHANGED <<out, nPulled>>
             ELSE /\ out' = Append(out, r.val[1])
                  /\ nPulled' = nPulled + 1
                  /\ UNCHANGED nones
    /\ UNCHANGED <<pc, call, rngIter, mono, blk, res, memo, words, igammaCalls>>

BitIterSpecNext == BitIterCall

SpecBitIter == BitIterInit /\ [][BitIterSpecNext]_vars

\* C1: a BitIter over B yields exactly 8*len(B) bits and then None on every
\* later call; bit p is bit (p mod 8) of byte B[p div 8]; the empty buffer
\* yields None at once.
C1_BitIterYields ==
    /\ Len(out) <= 8 * Len(bitIter.buff)
    /\ \A p \in 0 .. Len(out) - 1 :
          out[p + 1] = BitOf(bitIter.buff[(p \div 8) + 1], p % 8)
    /\ nones > 0 => Len(out) = 8 * Len(bitIter.buff)

C1_Witness ==
    /\ Len(bitIter.buff) = 2
    /\ bitIter.buff[1] = 2
    /\ bitIter.buff[2] = 64
    /\ Len(out) = 16
    /\ nones = 2

-----------------------------------------------------------------------------
(* Specification of BitsFromRng alone: an item count, then calls of next *)

BitsFromRngInit ==
    /\ pc = "rng"
    /\ call \in {[NoCall EXCEPT !.kind = "rng", !.items = k] : k \in 0 .. MaxItems}
    /\ bitIter = NewBitIter(<<>>)
    /\ rngIter = NewBitsFromRng(call.items)
    /\ Fresh

\* one call of BitsFromRng::next; w is what next_u32 returns if it is called
BitsFromRngCall ==
    /\ pc = "rng"
    /\ nones < MaxNoneCalls
    /\ \E w \in WordVals :
         LET r == BitsFromRngNext(rngIter, w)
         IN /\ rngIter' = r.it
            /\ words' = IF r.fetched THEN Append(words, w) ELSE words
            /\ IF r.val = None
               THEN nones' = nones + 1 /\ UNCHANGED <<out, nPulled>>
               ELSE /\ out' = Append(out, r.val[1])
                    /\ nPulled' = nPulled + 1
                    /\ UNCHANGED nones
    /\ UNCHANGED <<pc, call, bitIter, mono, blk, res, memo, igammaCalls>>

BitsFromRngSpecNext == BitsFromRngCall

SpecBitsFromRng == BitsFromRngInit /\ [][BitsFromRngSpecNext]_vars

\* C2: a BitsFromRng created with items = k yields exactly k bits and then
\* None on every later call; bit p is bit (p mod 32) of the (p div 32)-th
\* word next_u32 returned.
C2_BitsFromRngYields ==
    /\ Len(out) <= call.items
    /\ \A p \in 0 .. Len(out) - 1 :
          /\ (p \div 32) + 1 <= Len(words)
          /\ out[p + 1] = WordBit(words[(p \div 32) + 1], p % 32)
    /\ nones > 0 => Len(out) = call.items

C2_Witness ==
    /\ call.items = 33
    /\ Len(out) = 33
    /\ nones = 2
    /\ words = <<U32(32768, 1), U32(0, 1)>>

\* C3: next_u32 is called only inside a call of next that yields a bit and
\* only when no buffered bit is left; a bit is never yielded from an empty
\* buffer without a fetch; so ceil(n/32) words have been fetched after n
\* bits, ceil(k/32) after exhaustion, and none is fetched after it.
C3_FetchOnlyWhenEmpty ==
    /\ [][ /\ words' # words =>
                /\ rngIter.buffered = 0
                /\ Len(words') = Len(words) + 1
                /\ Len(out') = Len(out) + 1
           /\ (Len(out') > Len(out) /\ rngIter.buffered = 0) =>
                Len(words') = Len(words) + 1
           /\ nones > 0 => words' = words ]_vars
    /\ [](Len(words) = (Len(out) + 31) \div 32)
    /\ [](nones > 0 => Len(words) = (call.items + 31) \div 32)

C3_Witness ==
    /\ call.items = 33
    /\ Len(words) = 2
    /\ nones = 2

-----------------------------------------------------------------------------
(* lib.rs: Error, and the tests' Result<f32, Error> *)

Ok(p) == [tag |-> "Ok", p |-> p, n |-> 0]
ErrRngFailed == [tag |-> "RngFailed", p |-> FromInt(0), n |-> 0]
ErrInsufficientSampleSize(n) ==
    [tag |-> "InsufficientSampleSize", p |-> FromInt(0), n |-> n]
ErrBadPValue(p) == [tag |-> "BadPValue", p |-> p, n |-> 0]

-----------------------------------------------------------------------------
(* The bit sequence a test is given: impl Iterator<Item = bool> *)

\* the longest sequence an arbitrary iterator yields, by test
MaxBits == IF call.kind = "monobit" THEN MaxMonoBits ELSE MaxBlockBits

\* out records the bits yielded, except for the long sequences of the
\* monobit test over an arbitrary iterator, where nPulled alone counts them
TracksOut == ~(call.kind = "monobit" /\ call.src = "any")

\* one call of data.next() returning d.  A BitIter returns what BitIterNext
\* says; an arbitrary finite iterator returns any bit, or None to end.
Pull(d) ==
    /\ IF call.src = "bititer"
       THEN LET r == BitIterNext(bitIter)
            IN d = r.val /\ bitIter' = r.it
       ELSE /\ d \in {None} \cup
                     (IF nPulled < MaxBits THEN {Some(TRUE), Some(FALSE)} ELSE {})
            /\ UNCHANGED bitIter
    /\ IF d = None
       THEN nones' = nones + 1 /\ UNCHANGED <<out, nPulled>>
       ELSE /\ nPulled' = nPulled + 1
            /\ out' = IF TracksOut THEN Append(out, d[1]) ELSE out
            /\ UNCHANGED nones

\* the value of an external pure function at key: the one it returned
\* before for key, any value of FVals the first time
Returns(known, key, val) ==
    IF \E e \in known : e[1] = key
    THEN <<key, val>> \in known
    ELSE val \in FVals

-----------------------------------------------------------------------------
(* nist.rs: nist_freq_monobit *)

MinSampleSize == 100

\* lines 33-38: the check of the p-value
MonobitDecision(p) ==
    IF ~FGe(p, Rat(1, 100)) THEN ErrBadPValue(p) ELSE Ok(p)

\* mutant: the sample-size check is off by one
MonobitReturn_OffByOne(n, p) ==
    IF n <= MinSampleSize
    THEN ErrInsufficientSampleSize(n)
    ELSE MonobitDecision(p)

\* lines 22-38: what the function returns for n bits, p what erfcf returned
MonobitReturn(n, p) ==
    IF n < MinSampleSize
    THEN ErrInsufficientSampleSize(n)
    ELSE MonobitDecision(p)

\* mutant: n and v are kept from one call to the next
MonobitStart_KeepsLocals ==
    /\ pc = "start"
    /\ call.kind = "monobit"
    /\ pc' = "mono_loop"
    /\ UNCHANGED <<mono, call, bitIter, rngIter, blk, res, memo, out, nPulled,
                   nones, words, igammaCalls>>

\* lines 9-10: entry
MonobitStart ==
    /\ pc = "start"
    /\ call.kind = "monobit"
    /\ mono' = [v |-> 0, n |-> 0]
    /\ pc' = "mono_loop"
    /\ UNCHANGED <<call, bitIter, rngIter, blk, res, memo, out, nPulled,
                   nones, words, igammaCalls>>

\* lines 13-20: one turn of the for loop
MonobitLoop ==
    /\ pc = "mono_loop"
    /\ \E d \in {None, Some(TRUE), Some(FALSE)} :
         /\ Pull(d)
         /\ IF d = None
            THEN pc' = "mono_check" /\ UNCHANGED mono
            ELSE /\ mono' = [n |-> mono.n + 1,
                             v |-> IF d[1] THEN mono.v + 1 ELSE mono.v - 1]
                 /\ UNCHANGED pc
    /\ UNCHANGED <<call, rngIter, blk, res, memo, words, igammaCalls>>

\* lines 22-38: the sample-size check, the statistic, the p-value, the result.
\* s = |v| / sqrtf(n) is a function of (|v|, n), and so is erfcf(s / sqrtf(2)).
MonobitFinish ==
    /\ pc = "mono_check"
    /\ IF mono.n < MinSampleSize
       THEN /\ res' = Append(res, MonobitReturn(mono.n, NaN))
            /\ UNCHANGED memo
       ELSE \E p \in FVals :
              LET key == <<Abs(mono.v), mono.n>>
              IN /\ Returns(memo.erfcf, key, p)
                 /\ memo' = [memo EXCEPT !.erfcf = @ \cup {<<key, p>>}]
                 /\ res' = Append(res, MonobitReturn(mono.n, p))
    /\ pc' = "done"
    /\ UNCHANGED <<call, bitIter, rngIter, mono, blk, out, nPulled, nones,
                   words, igammaCalls>>

-----------------------------------------------------------------------------
(* nist.rs: nist_freq_block *)

\* mutant: the p-value is rejected with p < 0.01, which lets NaN pass
BlockDecision_LessThan(p) ==
    IF p # NaN /\ ~FGe(p, Rat(1, 100)) THEN ErrBadPValue(p) ELSE Ok(p)

\* mutant: a rejected p-value is reported as a sample-size failure
BlockDecision_Insufficient(p) ==
    IF ~FGe(p, Rat(1, 100)) THEN ErrInsufficientSampleSize(0) ELSE Ok(p)

\* lines 89-94: the check of the p-value
BlockDecision(p) ==
    IF ~FGe(p, Rat(1, 100)) THEN ErrBadPValue(p) ELSE Ok(p)

\* lines 53-55: (&mut data).take(block_len) and the block's two counters
NewBlock(b) == [b EXCEPT !.take_n = b.block_len, !.block_n = 0, !.block_v = 0]

\* lines 72-74: (block_v / block_n - 0.5) squared
BlockX2(block_v, block_n) ==
    LET block_p == FSub(FDiv(FromInt(block_v), FromInt(block_n)), Rat(1, 2))
    IN FMul(block_p, block_p)

\* mutant: a partial block is discarded only when it is empty
BlockIsPartial_OnlyEmpty(b) == b.block_n = 0 /\ b.block_len > 0

\* line 67: block_n < block_len
BlockIsPartial(b) == b.block_n < b.block_len

\* lines 84-87: the arguments (a, x) of nist_igamma
IgammaArgs(b) ==
    LET x2 == FMul(FMul(FromInt(4), FromInt(b.block_len)), b.x2_partial)
    IN <<FDiv(FromInt(b.num_blocks), FromInt(2)), FDiv(x2, FromInt(2))>>

\* lines 48-49, and the first turn's lines 53-55: entry
BlockStart ==
    /\ pc = "start"
    /\ call.kind = "block"
    /\ blk' = NewBlock([block_len |-> call.block_len, num_blocks |-> 0,
                        x2_partial |-> FromInt(0), take_n |-> 0,
                        block_n |-> 0, block_v |-> 0])
    /\ pc' = "blk_for"
    /\ UNCHANGED <<call, bitIter, rngIter, mono, res, memo, out, nPulled,
                   nones, words, igammaCalls>>

\* lines 58-64: one turn of the for loop over Take that polls data.
\* Take::next counts down before it polls.
BlockPull ==
    /\ pc = "blk_for"
    /\ blk.take_n > 0
    /\ \E d \in {None, Some(TRUE), Some(FALSE)} :
         /\ Pull(d)
         /\ IF d = None
            THEN /\ blk' = [blk EXCEPT !.take_n = @ - 1]
                 /\ pc' = "blk_check"
            ELSE /\ blk' = [blk EXCEPT !.take_n = @ - 1,
                                       !.block_n = @ + 1,
                                       !.block_v = IF d[1] THEN @ + 1 ELSE @]
                 /\ UNCHANGED pc
    /\ UNCHANGED <<call, rngIter, mono, res, memo, words, igammaCalls>>

\* lines 58-64: Take has given block_len items: it returns None without
\* polling data, and the for loop ends
BlockTakeDone ==
    /\ pc = "blk_for"
    /\ blk.take_n = 0
    /\ pc' = "blk_check"
    /\ UNCHANGED <<call, bitIter, rngIter, mono, blk, res, memo, out, nPulled,
                   nones, words, igammaCalls>>

\* lines 66-69: a partial block ends the loop
BlockBreak ==
    /\ pc = "blk_check"
    /\ BlockIsPartial(blk)
    /\ pc' = "blk_after"
    /\ UNCHANGED <<call, bitIter, rngIter, mono, blk, res, memo, out, nPulled,
                   nones, words, igammaCalls>>

\* lines 71-80, then the next turn's lines 53-55: a complete block is added.
\* num_blocks is an i32 the loop never bounds: the model follows it up to
\* MaxBlocks, which stands for every value past it too (a build without
\* overflow checks wraps at i32::MAX and goes on; one with them panics
\* there, which is not modelled).
BlockAdd ==
    /\ pc = "blk_check"
    /\ ~BlockIsPartial(blk)
    /\ blk' = NewBlock([blk EXCEPT
                 !.x2_partial = FAdd(@, BlockX2(blk.block_v, blk.block_n)),
                 !.num_blocks = Min(@ + 1, MaxBlocks)])
    /\ pc' = "blk_for"
    /\ UNCHANGED <<call, bitIter, rngIter, mono, res, memo, out, nPulled,
                   nones, words, igammaCalls>>

\* mutant: no block at all returns at once, without the gamma evaluator
BlockFinish_SkipsEmpty ==
    /\ pc = "blk_after"
    /\ IF blk.num_blocks = 0
       THEN /\ res' = Append(res, BlockDecision(FromInt(1)))
            /\ UNCHANGED <<memo, igammaCalls>>
       ELSE \E g \in FVals :
              LET key == IgammaArgs(blk)
              IN /\ Returns(memo.igamma, key, g)
                 /\ memo' = [memo EXCEPT !.igamma = @ \cup {<<key, g>>}]
                 /\ igammaCalls' = Append(igammaCalls, key)
                 /\ res' = Append(res, BlockDecision(FSub(FromInt(1), g)))
    /\ pc' = "done"
    /\ UNCHANGED <<call, bitIter, rngIter, mono, blk, out, nPulled, nones,
                   words>>

\* lines 83-94: x2, the p-value from nist_igamma, the result
BlockFinish ==
    /\ pc = "blk_after"
    /\ \E g \in FVals :
         LET key == IgammaArgs(blk)
         IN /\ Returns(memo.igamma, key, g)
            /\ memo' = [memo EXCEPT !.igamma = @ \cup {<<key, g>>}]
            /\ igammaCalls' = Append(igammaCalls, key)
            /\ res' = Append(res, BlockDecision(FSub(FromInt(1), g)))
    /\ pc' = "done"
    /\ UNCHANGED <<call, bitIter, rngIter, mono, blk, out, nPulled, nones,
                   words>>

-----------------------------------------------------------------------------
(* Specification of one call of a test over an arbitrary finite iterator *)

TestsInit ==
    /\ pc = "start"
    /\ call \in {[NoCall EXCEPT !.kind = "monobit", !.src = "any"]}
            \cup {[NoCall EXCEPT !.kind = "block", !.src = "any",
                                 !.block_len = l] : l \in 0 .. MaxBlockLen}
    /\ bitIter = NewBitIter(<<>>)
    /\ rngIter = NewBitsFromRng(0)
    /\ Fresh

MonobitNext == MonobitStart \/ MonobitLoop \/ MonobitFinish

BlockNext ==
    \/ BlockStart
    \/ BlockPull
    \/ BlockTakeDone
    \/ BlockBreak
    \/ BlockAdd
    \/ BlockFinish

TestsNext == MonobitNext \/ BlockNext

SpecTests == TestsInit /\ [][TestsNext]_vars

\* a caller's call runs to its end: the functions are plain sequential code
SpecTestsFair == SpecTests /\ WF_vars(TestsNext)

-----------------------------------------------------------------------------
(* Claims about one call of a test *)

Returned == pc = "done"
Result == res[Len(res)]

\* C4: over a sequence of n < 100 bits nist_freq_monobit returns
\* Err(InsufficientSampleSize(n)), n the number of bits pulled, whatever the
\* bits are; over 100 bits or more it never returns InsufficientSampleSize.
C4_InsufficientSampleSize ==
    (Returned /\ call.kind = "monobit") =>
        /\ nPulled < 100 => Result = ErrInsufficientSampleSize(nPulled)
        /\ nPulled >= 100 => Result.tag # "InsufficientSampleSize"

C4_Witness ==
    /\ Returned
    /\ call.kind = "monobit"
    /\ nPulled = 99
    /\ mono.v = 1
    /\ Result = ErrInsufficientSampleSize(99)

\* the number of true bits among bits[from .. from + len - 1]
Ones(bits, from, len) ==
    Cardinality({k \in from .. from + len - 1 : bits[k]})

\* the sum over blocks 0 .. m-1 of L bits each of (ones/L - 1/2)^2
RECURSIVE SumOfBlocks(_, _, _)
SumOfBlocks(bits, L, m) ==
    IF m = 0 THEN FromInt(0)
    ELSE LET d == FSub(Rat(Ones(bits, (m - 1) * L + 1, L), L), Rat(1, 2))
         IN FAdd(SumOfBlocks(bits, L, m - 1), FMul(d, d))

\* C5: over n bits and block length L >= 1, nist_freq_block counts
\* M = floor(n / L) blocks, block i being bits i*L .. i*L+L-1, and
\* accumulates the sum over them of (ones_i/L - 1/2)^2; the trailing
\* n mod L bits change neither the count nor the sum.
C5_CompleteBlocksOnly ==
    (call.kind = "block" /\ call.block_len >= 1 /\ pc \in {"blk_after", "done"}) =>
        LET L == call.block_len
            M == nPulled \div L
        IN /\ Len(out) = nPulled
           /\ blk.num_blocks = M
           /\ blk.x2_partial = SumOfBlocks(SubSeq(out, 1, M * L), L, M)

C5_Witness ==
    /\ Returned
    /\ call.kind = "block"
    /\ call.block_len = 2
    /\ out = <<TRUE, TRUE, FALSE, TRUE, TRUE>>
    /\ blk.num_blocks = 2
    /\ blk.x2_partial = Rat(1, 4)

\* the p-value the call computed: what erfcf returned, or 1 - what
\* nist_igamma returned
ComputedP ==
    IF call.kind = "monobit"
    THEN (CHOOSE e \in memo.erfcf : TRUE)[2]
    ELSE FSub(FromInt(1), (CHOOSE e \in memo.igamma : TRUE)[2])

\* C6: nist_freq_monobit past its sample-size check, and nist_freq_block,
\* return Ok(p) if and only if p >= 0.01 holds and Err(BadPValue(p)) with the
\* same p otherwise; NaN always gives Err(BadPValue(NaN)).
C6_PValueDecision ==
    (Returned /\ (call.kind = "block" \/ nPulled >= 100)) =>
        LET p == ComputedP
        IN /\ FGe(p, Rat(1, 100)) => Result = Ok(p)
           /\ ~FGe(p, Rat(1, 100)) => Result = ErrBadPValue(p)
           /\ p = NaN => Result = ErrBadPValue(NaN)
           /\ Result.tag = "Ok" => FGe(Result.p, Rat(1, 100))

C6_Witness ==
    /\ Returned
    /\ call.kind = "block"
    /\ nPulled = 4
    /\ ComputedP = NaN
    /\ Result = ErrBadPValue(NaN)

\* C8: neither test returns Err(RngFailed); nist_freq_monobit's errors are
\* InsufficientSampleSize and BadPValue, nist_freq_block's only error is
\* BadPValue, also over fewer than 100 bits or less than one block.
C8_ErrorKinds ==
    \A k \in 1 .. Len(res) :
        /\ res[k].tag # "RngFailed"
        /\ call.kind = "monobit" =>
             res[k].tag \in {"Ok", "InsufficientSampleSize", "BadPValue"}
        /\ call.kind = "block" => res[k].tag \in {"Ok", "BadPValue"}

C8_Witness ==
    /\ Returned
    /\ call.kind = "block"
    /\ call.block_len = 3
    /\ nPulled = 2
    /\ Result.tag = "BadPValue"

\* C9: a call of nist_freq_block that returns has called the gamma
\* evaluator exactly once, after the block loop, with a = M/2 and x = x2/2,
\* M the number of complete blocks; with M = 0 it is still called once, with
\* a = 0 and x = 0, and its result goes through the same decision.
C9_IgammaOnce ==
    /\ (call.kind = "block" /\ ~Returned) => igammaCalls = <<>>
    /\ (call.kind = "block" /\ Returned) =>
         LET L  == call.block_len
             M  == nPulled \div L
             x2 == FMul(FromInt(4 * L), SumOfBlocks(out, L, M))
         IN /\ igammaCalls = << <<Rat(M, 2), FDiv(x2, FromInt(2))>> >>
            /\ M = 0 => igammaCalls = << <<FromInt(0), FromInt(0)>> >>
            /\ Result = IF FGe(ComputedP, Rat(1, 100))
                        THEN Ok(ComputedP)
                        ELSE ErrBadPValue(ComputedP)

C9_Witness ==
    /\ Returned
    /\ call.kind = "block"
    /\ call.block_len = 3
    /\ nPulled = 2
    /\ igammaCalls = << <<FromInt(0), FromInt(0)>> >>
    /\ Result = Ok(Rat(1, 100))

\* C10: for every finite bit sequence and every block_len, 0 included,
\* nist_freq_block terminates: its loop ends with the sequence drained and
\* the call returns.
C10_BlockTerminates ==
    call.kind = "block" ~> (Returned /\ nones > 0)

-----------------------------------------------------------------------------
(* Specification of a test called twice over the same buffer, each time    *)
(* with a BitIter of its own                                               *)

ReplayLens == {0, 1, 2, MaxReplayBytes}

ReplayBuffers ==
    {[k \in 1 .. n |-> IF k = 1 THEN a ELSE b] :
        n \in ReplayLens, a \in ReplayByteVals, b \in ReplayByteVals}

ReplayInit ==
    /\ pc = "start"
    /\ call \in {[NoCall EXCEPT !.kind = "monobit", !.src = "bititer"]}
            \cup {[NoCall EXCEPT !.kind = "block", !.src = "bititer",
                                 !.block_len = l] : l \in 0 .. MaxBlockLen}
    /\ bitIter \in {NewBitIter(b) : b \in ReplayBuffers}
    /\ rngIter = NewBitsFromRng(0)
    /\ Fresh

\* the caller, after the first call has returned: BitIter::new over the same
\* buffer, and the same test again
Replay ==
    /\ pc = "done"
    /\ Len(res) = 1
    /\ bitIter' = NewBitIter(bitIter.buff)
    /\ pc' = "start"
    /\ nPulled' = 0
    /\ nones' = 0
    /\ UNCHANGED <<call, rngIter, mono, blk, res, memo, out, words, igammaCalls>>

ReplayNext == TestsNext \/ Replay

SpecReplay == ReplayInit /\ [][ReplayNext]_vars

\* C7: iterating a BitIter never changes the buffer, two BitIter over the
\* same buffer yield the same bits, and a test run twice over the same
\* buffer (with the same block length) returns the same result twice.
C7_ReplayIdentical ==
    /\ [][bitIter'.buff = bitIter.buff]_vars
    /\ [](Len(res) = 2 =>
            /\ res[1] = res[2]
            /\ Len(out) = 2 * nPulled
            /\ \A p \in 1 .. nPulled : out[p] = out[p + nPulled])

C7_Witness ==
    /\ Len(res) = 2
    /\ call.kind = "monobit"
    /\ Len(bitIter.buff) = MaxReplayBytes
    /\ bitIter.buff[1] = 165
    /\ nPulled = 8 * MaxReplayBytes
    /\ res[2].tag = "Ok"

====
